---- MODULE Spec2Model ----
(***************************************************************************)
(* Model of the link crawler of db-case-study: the sequential script       *)
(* bin/demo_script.py and the asyncio script bin/demo_script_with_async.py.*)
(* Strings are sequences of one-character strings, a Counter is a function *)
(* whose domain holds exactly the keys that were ever incremented.         *)
(***************************************************************************)
EXTENDS Integers, Sequences, FiniteSets, TLC

\* ---------------------------------------------------------------- bounds
MaxContentLen == 3
MaxAnchors == 12

\* ------------------------------------------------------ program constants
MaxLinks == 10
HTTP_OK == 200
ExitFailure == 103

\* ------------------------------------------------------------ str methods
Letters == {"a", "A", "b", "B"}
Alphabet == Letters \cup {"-"}

\* str.lower on one character
LowerChar(c) ==
  CASE c = "A" -> "a"
    [] c = "B" -> "b"
    [] OTHER -> c

\* a lower() that folds nothing
lower_nofold(s) == s

\* str.lower
lower(s) == [i \in 1..Len(s) |-> LowerChar(s[i])]

\* Python's  sub in s  on strings
Contains(sub, s) ==
  \E i \in 0..(Len(s) - Len(sub)) : SubSeq(s, i + 1, i + Len(sub)) = sub

\* str.startswith
startswith(s, prefix) ==
  /\ Len(s) >= Len(prefix)
  /\ SubSeq(s, 1, Len(prefix)) = prefix

\* ---------------------------------------------------- collections.Counter
EmptyCounter == [k \in {} |-> 0]

\* Counter.__getitem__/__missing__: an absent key reads as 0
CounterGet(c, k) == IF k \in DOMAIN c THEN c[k] ELSE 0

\* c[k] += n
CounterAdd(c, k, n) ==
  [x \in (DOMAIN c) \cup {k} |->
     IF x = k THEN CounterGet(c, k) + n ELSE c[x]]

\* an update that replaces the counts instead of adding to them
CounterUpdate_overwrite(c, other) ==
  [x \in (DOMAIN c) \cup (DOMAIN other) |->
     IF x \in DOMAIN other THEN other[x] ELSE c[x]]

\* Counter.update(other): adds the counts of other, key by key
CounterUpdate(c, other) ==
  [x \in (DOMAIN c) \cup (DOMAIN other) |->
     CounterGet(c, x) + CounterGet(other, x)]

\* --------------------------------------------- check_keywords_in_page
\* demo_script.py: inner loop over the keywords of one set
RECURSIVE sync_keyword_loop(_, _, _, _)
sync_keyword_loop(content, keyword_set, remaining, counts) ==
  IF remaining = {} THEN counts
  ELSE LET keyword == CHOOSE k \in remaining : TRUE
           keyword_lower == lower(keyword)
           counts2 == IF Contains(keyword_lower, content)
                      THEN CounterAdd(counts, keyword_set, 1)
                      ELSE counts
       IN sync_keyword_loop(content, keyword_set, remaining \ {keyword}, counts2)

\* demo_script.py: outer loop over keyword_sets
RECURSIVE sync_set_loop(_, _, _, _)
sync_set_loop(content, keyword_sets_, i, counts) ==
  IF i > Len(keyword_sets_) THEN counts
  ELSE sync_set_loop(content, keyword_sets_, i + 1,
         sync_keyword_loop(content, keyword_sets_[i], keyword_sets_[i], counts))

\* a scan that counts a keyword set once however many members match
check_keywords_in_page_once(content, keyword_sets_) ==
  [g \in {keyword_sets_[i] : i \in {j \in 1..Len(keyword_sets_) :
             \E kw \in keyword_sets_[j] : Contains(lower(kw), lower(content))}} |-> 1]

\* demo_script.py check_keywords_in_page
check_keywords_in_page(content, keyword_sets_) ==
  sync_set_loop(lower(content), keyword_sets_, 1, EmptyCounter)

\* demo_script_with_async.py: loop over keyword_sets
RECURSIVE async_set_loop(_, _, _, _)
async_set_loop(content, keyword_sets_, i, counts) ==
  IF i > Len(keyword_sets_) THEN counts
  ELSE LET keyword_set == keyword_sets_[i]
           keyword_set_lower == {lower(kw) : kw \in keyword_set}
           counts2 == IF \E keyword \in keyword_set_lower : Contains(keyword, content)
                      THEN CounterAdd(counts, keyword_set, 1)
                      ELSE counts
       IN async_set_loop(content, keyword_sets_, i + 1, counts2)

\* demo_script_with_async.py check_keywords_in_page
check_keywords_in_page_async(content, keyword_sets_) ==
  async_set_loop(lower(content), keyword_sets_, 1, EmptyCounter)

\* ------------------------------------------------------------- get_hrefs
\* An anchor tag is [has_href, href]; the outcome of fetching and parsing a
\* page is Page(its anchor tags in document order), or FetchError when
\* requests.get, session.get or the parser raises.
FetchError == [ok |-> FALSE, anchors |-> <<>>]
Page(anchors) == [ok |-> TRUE, anchors |-> anchors]
HttpPrefix == <<"h", "t", "t", "p">>

Anchor(h) == [has_href |-> TRUE, href |-> h]
AnchorNoHref == [has_href |-> FALSE, href |-> <<>>]

HasHref(a) == a.has_href
IsHttp(link) == startswith(link, HttpPrefix)

\* the first n elements, s[:n]
Take(s, n) == SubSeq(s, 1, IF Len(s) < n THEN Len(s) ELSE n)

\* [a['href'] for a in soup.find_all('a', href=True)]
HrefLinks(anchors) ==
  LET withHref == SelectSeq(anchors, HasHref)
  IN [i \in 1..Len(withHref) |-> withHref[i].href]

\* truncating the anchors before the prefix filter
get_hrefs_truncate_first(page) ==
  IF ~page.ok THEN <<>>
  ELSE SelectSeq(Take(HrefLinks(page.anchors), MaxLinks), IsHttp)

\* no truncation at all
get_hrefs_unbounded(page) ==
  IF ~page.ok THEN <<>>
  ELSE SelectSeq(HrefLinks(page.anchors), IsHttp)

\* demo_script.py get_hrefs, applied to the outcome of the page fetch
get_hrefs(page) ==
  IF ~page.ok THEN <<>>
  ELSE LET href_links == HrefLinks(page.anchors)
           valid_links == SelectSeq(href_links, IsHttp)
       IN Take(valid_links, MaxLinks)

\* demo_script_with_async.py get_hrefs
get_hrefs_async(page) ==
  IF ~page.ok THEN <<>>
  ELSE LET href_links == HrefLinks(page.anchors)
           valid_links == SelectSeq(href_links, IsHttp)
       IN Take(valid_links, MaxLinks)

\* ------------------------------------------------------ check_http_status
\* The outcome of one GET: an HTTP response with a status, or an exception.
\* "ConnectionError": requests.ConnectionError / aiohttp.ClientConnectionError
\* "Timeout":         requests.Timeout / asyncio.TimeoutError
\* "OtherError":      an exception of neither library's base class
Response(st) == [kind |-> "response", status |-> st]
Failure(k) == [kind |-> k, status |-> 0]

\* the kinds that are requests.exceptions.RequestException
RequestException == {"ConnectionError", "Timeout"}
\* the kinds that are aiohttp.ClientError
ClientError == {"ConnectionError"}

Returned(st) == [outcome |-> "return", none |-> FALSE, status_code |-> st]
ReturnedNone == [outcome |-> "return", none |-> TRUE, status_code |-> 0]
Raised == [outcome |-> "raise", none |-> TRUE, status_code |-> 0]

\* demo_script.py check_http_status
check_http_status(resp) ==
  CASE resp.kind = "response" -> Returned(resp.status)
    [] resp.kind \in RequestException -> ReturnedNone
    [] OTHER -> Raised

\* demo_script_with_async.py check_http_status
check_http_status_async(resp) ==
  CASE resp.kind = "response" -> Returned(resp.status)
    [] resp.kind \in ClientError -> ReturnedNone
    [] OTHER -> Raised

\* status = "Valid" if status_code == 200 else "Invalid"
LinkStatus(r) ==
  IF ~r.none /\ r.status_code = HTTP_OK THEN "Valid" ELSE "Invalid"

\* ------------------------------------------------------------------ state
Variants == {"sync", "async"}

VARIABLES
  \* the scanner applied to one page
  content,                      \* page text handed to check_keywords_in_page
  keyword_sets,                 \* the list of keyword sets
  kw_sync, kw_async,            \* the Counter each script's scanner returned
  kpc,                          \* the scanners that have run
  \* the link extractor applied to one page
  page,                         \* anchor tags of the page, in document order
  href_result,                  \* what each script's get_hrefs returned
  hpc,                          \* "build", "fetched" or "failed"
  \* the network
  seed_page,                    \* seed url -> outcome of fetching and parsing it
  link_resp,                    \* link url -> outcome of a GET on it
  mock,                         \* TRUE: every GET of a url has the same outcome
  \* one run of a script, per variant
  pc,                           \* position in main()
  exit_code,                    \* <<status>> once the process has exited, <<>> before
  pipe,                         \* process_links_and_keywords: idle/running/returned/raised
  error,                        \* where the exception that left the pipeline was raised
  valid_links_info,             \* list of [parent, link, status]
  keyword_set_counts_per_link,  \* dict seed url -> Counter
  discovered,                   \* every (seed, link) get_hrefs has returned
  csv_rows,                     \* data rows of valid_links.csv
  written,                      \* the output files written so far
  log,                          \* the ERROR and CRITICAL records main has logged
  \* locals of the sequential process_links_and_keywords
  s_i, s_j, s_phase, s_valid_links, s_total,
  \* tasks of the asyncio process_links_and_keywords
  url_pc, url_links, url_total, link_pc

kwVars == <<content, kw_sync, kw_async, kpc>>
hrefVars == <<page, href_result, hpc>>
netVars == <<seed_page, link_resp, mock>>
mainVars == <<pc, exit_code, csv_rows, written, log>>
pipeVars == <<pipe, error, valid_links_info, keyword_set_counts_per_link, discovered>>
syncVars == <<s_i, s_j, s_phase, s_valid_links, s_total>>
asyncVars == <<url_pc, url_links, url_total, link_pc>>
runVars == <<netVars, mainVars, pipeVars, syncVars, asyncVars>>
vars == <<kwVars, keyword_sets, hrefVars, runVars>>

\* ----------------------------------------------------------------- inputs
\* keywords: mixed case, upper case, and one with a separator
KW1 == <<"A", "b">>
KW2 == <<"B">>
KW3 == <<"b", "-", "a">>

\* the list as demo_script.py groups it (one keyword per set) and as
\* demo_script_with_async.py groups it (related keywords in one set)
KeywordSetsSingle == << {KW1}, {KW2}, {KW3} >>
KeywordSetsGrouped == << {KW1, KW2}, {KW3} >>
KeywordSetsChoices == {KeywordSetsSingle, KeywordSetsGrouped}

RECURSIVE StringsOfLen(_)
StringsOfLen(n) ==
  IF n = 0 THEN { <<>> }
  ELSE {Append(s, c) : s \in StringsOfLen(n - 1), c \in Alphabet}

Contents == UNION {StringsOfLen(n) : n \in 0..MaxContentLen}

\* the state of the runs while only a pure function is exercised
RunIdle ==
  /\ seed_page = <<>> /\ link_resp = <<>> /\ mock = TRUE
  /\ pc = [v \in Variants |-> "off"]
  /\ exit_code = [v \in Variants |-> <<>>]
  /\ csv_rows = [v \in Variants |-> <<>>]
  /\ written = [v \in Variants |-> {}]
  /\ log = [v \in Variants |-> <<>>]
  /\ pipe = [v \in Variants |-> "idle"]
  /\ error = [v \in Variants |-> "none"]
  /\ valid_links_info = [v \in Variants |-> <<>>]
  /\ keyword_set_counts_per_link = [v \in Variants |-> <<>>]
  /\ discovered = [v \in Variants |-> <<>>]
  /\ s_i = 1 /\ s_j = 1 /\ s_phase = "get_hrefs"
  /\ s_valid_links = <<>> /\ s_total = EmptyCounter
  /\ url_pc = <<>> /\ url_links = <<>> /\ url_total = <<>> /\ link_pc = <<>>

KwIdle ==
  /\ content = <<>> /\ kw_sync = EmptyCounter /\ kw_async = EmptyCounter
  /\ kpc = {}

HrefIdle ==
  /\ page = <<>>
  /\ href_result = [v \in Variants |-> <<>>]
  /\ hpc = "off"

\* ------------------------------------- specification of the page scanner
InitKeywords ==
  /\ content \in Contents
  /\ keyword_sets \in KeywordSetsChoices
  /\ kw_sync = EmptyCounter /\ kw_async = EmptyCounter
  /\ kpc = {}
  /\ HrefIdle /\ RunIdle

\* a call of demo_script.py check_keywords_in_page
ScanSync ==
  /\ "sync" \notin kpc
  /\ kw_sync' = check_keywords_in_page(content, keyword_sets)
  /\ kpc' = kpc \cup {"sync"}
  /\ UNCHANGED <<content, kw_async, keyword_sets, hrefVars, runVars>>

\* a call of demo_script_with_async.py check_keywords_in_page
ScanAsync ==
  /\ "async" \notin kpc
  /\ kw_async' = check_keywords_in_page_async(content, keyword_sets)
  /\ kpc' = kpc \cup {"async"}
  /\ UNCHANGED <<content, kw_sync, keyword_sets, hrefVars, runVars>>

NextKeywords == ScanSync \/ ScanAsync

SpecKeywords == InitKeywords /\ [][NextKeywords]_vars

\* ------------------------------------ specification of the link extractor
\* the anchors a page may hold at position i: an http link, an https link,
\* a relative link, a link that only shares a prefix with "http", and an
\* anchor without href
HttpLink(i) == <<"h", "t", "t", "p", ":", ToString(i)>>
HttpsLink(i) == <<"h", "t", "t", "p", "s", ":", ToString(i)>>
RelLink(i) == <<"/", ToString(i)>>
AnchorsAt(i) ==
  IF i % 4 = 1 THEN {Anchor(HttpLink(i)), Anchor(RelLink(i))}
  ELSE IF i % 4 = 2 THEN {Anchor(HttpsLink(i)), AnchorNoHref}
  ELSE IF i % 4 = 3 THEN {Anchor(HttpLink(i)), Anchor(<<"h", "t", "t">>)}
  ELSE {Anchor(HttpsLink(i)), Anchor(HttpLink(1)), Anchor(RelLink(i))}

InitHrefs ==
  /\ page = <<>>
  /\ href_result = [v \in Variants |-> <<>>]
  /\ hpc = "build"
  /\ keyword_sets = KeywordSetsSingle
  /\ KwIdle /\ RunIdle

\* the page under test gets one more anchor tag
AddAnchor ==
  /\ hpc = "build"
  /\ Len(page) < MaxAnchors
  /\ \E a \in AnchorsAt(Len(page) + 1) : page' = Append(page, a)
  /\ UNCHANGED <<href_result, hpc, kwVars, keyword_sets, runVars>>

\* both scripts' get_hrefs on a page that is fetched and parsed
CallGetHrefs ==
  /\ hpc = "build"
  /\ href_result' = [v \in Variants |->
        IF v = "sync" THEN get_hrefs(Page(page)) ELSE get_hrefs_async(Page(page))]
  /\ hpc' = "fetched"
  /\ UNCHANGED <<page, kwVars, keyword_sets, runVars>>

\* both scripts' get_hrefs when the fetch or the parser raises
CallGetHrefsFailing ==
  /\ hpc = "build"
  /\ href_result' = [v \in Variants |->
        IF v = "sync" THEN get_hrefs(FetchError) ELSE get_hrefs_async(FetchError)]
  /\ hpc' = "failed"
  /\ UNCHANGED <<page, kwVars, keyword_sets, runVars>>

NextHrefs == AddAnchor \/ CallGetHrefs \/ CallGetHrefsFailing

SpecHrefs == InitHrefs /\ [][NextHrefs]_vars

\* ------------------------------------------------------ the two scripts
\* urls (two of the eight seeds), the links their pages may hold, the page
\* text behind each link and the outcomes a GET may have
urls == <<"seed1", "seed2">>
Seeds == {urls[i] : i \in 1..Len(urls)}

Link1 == HttpLink(1)
Link2 == HttpsLink(2)
Links == {Link1, Link2}

PageTwoLinks == Page(<<Anchor(Link1), Anchor(RelLink(2)), AnchorNoHref, Anchor(Link2)>>)
PageOneLink == Page(<<Anchor(Link2)>>)
SeedPages == {FetchError, PageTwoLinks, PageOneLink}

\* response.text of a link: the first holds KW1 and KW2, the second KW2
PageText(link) ==
  IF link = Link1 THEN <<"a", "B", "-", "b">> ELSE <<"-", "B">>

LinkResponses ==
  {Response(HTTP_OK), Response(HTTP_OK + 204),   \* 200 and 404
   Failure("ConnectionError"), Failure("Timeout"), Failure("OtherError")}

\* the outcomes of the second GET of a link (the body request): the outcome
\* of the first one, or, on a real network, a failure
BodyOutcomes(link) ==
  {link_resp[link]} \cup (IF mock THEN {} ELSE {Failure("ConnectionError")})

\* dict[key] = value
DictSet(d, key, value) ==
  [x \in (DOMAIN d) \cup {key} |-> IF x = key THEN value ELSE d[x]]

LinkRecord(url, link, status) == [parent |-> url, link |-> link, status |-> status]

Arguments == {"", "-v", "-h", "--bogus"}

Stages ==
  <<"save_valid_links", "plot_link_status", "save_keyword_freq",
    "plot_keyword_freq", "write_html">>

StageIndex(name) == CHOOSE i \in 1..Len(Stages) : Stages[i] = name

InitRun(scripts, start, mocked) ==
  /\ seed_page \in [Seeds -> SeedPages]
  /\ link_resp \in [Links -> LinkResponses]
  /\ keyword_sets \in KeywordSetsChoices
  /\ mock = mocked
  /\ pc = [v \in Variants |-> IF v \in scripts THEN start ELSE "off"]
  /\ exit_code = [v \in Variants |-> <<>>]
  /\ csv_rows = [v \in Variants |-> <<>>]
  /\ written = [v \in Variants |-> {}]
  /\ log = [v \in Variants |-> <<>>]
  /\ pipe = [v \in Variants |-> "idle"]
  /\ error = [v \in Variants |-> "none"]
  /\ valid_links_info = [v \in Variants |-> <<>>]
  /\ keyword_set_counts_per_link = [v \in Variants |-> <<>>]
  /\ discovered = [v \in Variants |-> <<>>]
  /\ s_i = 1 /\ s_j = 1 /\ s_phase = "get_hrefs"
  /\ s_valid_links = <<>> /\ s_total = EmptyCounter
  /\ url_pc = <<>> /\ url_links = <<>> /\ url_total = <<>> /\ link_pc = <<>>
  /\ KwIdle /\ HrefIdle

\* ------------------------------------------------------------------ main
\* parser.parse_args(): argparse leaves with SystemExit(2) on a usage error
\* and SystemExit(0) after -h; SystemExit is no Exception, so the guard of
\* main does not catch it
ParseArgs(v) ==
  /\ pc[v] = "parse_args"
  /\ \E argv \in Arguments :
       CASE argv = "--bogus" ->
              /\ pc' = [pc EXCEPT ![v] = "exit"]
              /\ exit_code' = [exit_code EXCEPT ![v] = <<2>>]
              /\ error' = [error EXCEPT ![v] = "argparse"]
         [] argv = "-h" ->
              /\ pc' = [pc EXCEPT ![v] = "exit"]
              /\ exit_code' = [exit_code EXCEPT ![v] = <<0>>]
              /\ UNCHANGED error
         [] OTHER ->
              /\ pc' = [pc EXCEPT ![v] = "pipeline"]
              /\ UNCHANGED <<exit_code, error>>
  /\ UNCHANGED <<csv_rows, written, log, pipe, valid_links_info,
                 keyword_set_counts_per_link,
                 discovered, netVars, syncVars, asyncVars, kwVars, keyword_sets, hrefVars>>

\* the call of process_links_and_keywords; the asyncio script creates one
\* process_url coroutine per seed and gathers them
CallPipeline(v) ==
  /\ pc[v] = "pipeline"
  /\ pipe[v] = "idle"
  /\ pipe' = [pipe EXCEPT ![v] = "running"]
  /\ IF v = "async"
     THEN /\ url_pc' = [u \in Seeds |-> "get_hrefs"]
          /\ url_links' = [u \in Seeds |-> <<>>]
          /\ url_total' = [u \in Seeds |-> EmptyCounter]
          /\ link_pc' = [u \in Seeds |-> <<>>]
     ELSE UNCHANGED asyncVars
  /\ UNCHANGED <<mainVars, error, valid_links_info, keyword_set_counts_per_link,
                 discovered, netVars, syncVars, kwVars, keyword_sets, hrefVars>>

\* process_links_and_keywords returned: main goes on to the reports
PipelineReturned(v) ==
  /\ pc[v] = "pipeline"
  /\ pipe[v] = "returned"
  /\ pc' = [pc EXCEPT ![v] = Stages[1]]
  /\ UNCHANGED <<exit_code, csv_rows, written, log, pipeVars, netVars, syncVars,
                 asyncVars, kwVars, keyword_sets, hrefVars>>

\* the files a reporting stage writes
OutputsOf(stage) ==
  CASE stage = "save_valid_links" -> {"valid_links.csv"}
    [] stage = "save_keyword_freq" -> {"keyword_stats.csv"}
    [] stage = "write_html" -> {"valid_links_graphs.html", "keyword_stats_graphs.html"}
    [] OTHER -> {}

\* what a stage that raises may have written before: save_*_to_csv may have
\* created its file, the HTML export may have written the first of its two
\* files
PartialOutputs(stage) ==
  CASE stage = "write_html" -> { {}, {"valid_links_graphs.html"} }
    [] OTHER -> { {}, OutputsOf(stage) }

\* logger.error of the stage's except clause, then logger.critical of the
\* guard of main
FailureRecords(stage) ==
  << [level |-> "ERROR", stage |-> stage], [level |-> "CRITICAL", stage |-> stage] >>

\* an exit that reports success although an exception reached the guard
ExitOnException_success(v) ==
  /\ pc' = [pc EXCEPT ![v] = "exit"]
  /\ exit_code' = [exit_code EXCEPT ![v] = <<0>>]

\* except Exception of main: logs critical and calls exit(103)
ExitOnException(v) ==
  /\ pc' = [pc EXCEPT ![v] = "exit"]
  /\ exit_code' = [exit_code EXCEPT ![v] = <<ExitFailure>>]

\* process_links_and_keywords raised: logged, re-raised, caught by the guard
PipelineRaised(v) ==
  /\ pc[v] = "pipeline"
  /\ pipe[v] = "raised"
  /\ ExitOnException(v)
  /\ log' = [log EXCEPT ![v] = @ \o FailureRecords("pipeline")]
  /\ UNCHANGED <<csv_rows, written, pipeVars, netVars, syncVars, asyncVars,
                 kwVars, keyword_sets, hrefVars>>

\* a reporting stage runs to its end; save_valid_links_to_csv writes one row
\* per element of valid_links_info; the last stage is followed by exit 0
StageCompletes(v) ==
  /\ pc[v] \in {Stages[i] : i \in 1..Len(Stages)}
  /\ csv_rows' = IF pc[v] = "save_valid_links"
                 THEN [csv_rows EXCEPT ![v] = valid_links_info[v]]
                 ELSE csv_rows
  /\ written' = [written EXCEPT ![v] = @ \cup OutputsOf(pc[v])]
  /\ IF StageIndex(pc[v]) < Len(Stages)
     THEN /\ pc' = [pc EXCEPT ![v] = Stages[StageIndex(pc[v]) + 1]]
          /\ UNCHANGED exit_code
     ELSE /\ pc' = [pc EXCEPT ![v] = "exit"]
          /\ exit_code' = [exit_code EXCEPT ![v] = <<0>>]
  /\ UNCHANGED <<log, pipeVars, netVars, syncVars, asyncVars, kwVars, keyword_sets, hrefVars>>

\* a stage whose exception is logged and then dropped: main goes on
StageRaises_swallowed(v) ==
  /\ pc[v] \in {Stages[i] : i \in 1..Len(Stages)}
  /\ IF StageIndex(pc[v]) < Len(Stages)
     THEN /\ pc' = [pc EXCEPT ![v] = Stages[StageIndex(pc[v]) + 1]]
          /\ UNCHANGED exit_code
     ELSE /\ pc' = [pc EXCEPT ![v] = "exit"]
          /\ exit_code' = [exit_code EXCEPT ![v] = <<0>>]
  /\ error' = [error EXCEPT ![v] = pc[v]]
  /\ log' = [log EXCEPT ![v] = Append(@, [level |-> "ERROR", stage |-> pc[v]])]
  /\ UNCHANGED <<csv_rows, written, pipe, valid_links_info, keyword_set_counts_per_link,
                 discovered, netVars, syncVars, asyncVars, kwVars, keyword_sets, hrefVars>>

\* a reporting stage raises (the output file cannot be opened, the chart
\* cannot be shown): logged, re-raised, caught by the guard
StageRaises(v) ==
  /\ pc[v] \in {Stages[i] : i \in 1..Len(Stages)}
  /\ ExitOnException(v)
  /\ error' = [error EXCEPT ![v] = pc[v]]
  /\ log' = [log EXCEPT ![v] = @ \o FailureRecords(pc[v])]
  /\ \E partial \in PartialOutputs(pc[v]) :
       written' = [written EXCEPT ![v] = @ \cup partial]
  /\ UNCHANGED <<csv_rows, pipe, valid_links_info, keyword_set_counts_per_link,
                 discovered, netVars, syncVars, asyncVars, kwVars, keyword_sets, hrefVars>>

Main(v) ==
  \/ ParseArgs(v)
  \/ CallPipeline(v)
  \/ PipelineReturned(v)
  \/ PipelineRaised(v)
  \/ StageCompletes(v)
  \/ StageRaises(v)

\* ----------------------- demo_script.py process_links_and_keywords
\* for url in urls: valid_links = get_hrefs(url); total = Counter()
SyncGetHrefs ==
  /\ pipe["sync"] = "running"
  /\ s_phase = "get_hrefs"
  /\ s_i <= Len(urls)
  /\ LET url == urls[s_i]
         valid_links == get_hrefs(seed_page[url])
     IN /\ s_valid_links' = valid_links
        /\ discovered' = [discovered EXCEPT !["sync"] =
              @ \o [k \in 1..Len(valid_links) |-> <<url, valid_links[k]>>]]
  /\ s_total' = EmptyCounter
  /\ s_j' = 1
  /\ s_phase' = "links"
  /\ UNCHANGED <<s_i, pipe, error, valid_links_info, keyword_set_counts_per_link,
                 mainVars, netVars, asyncVars, kwVars, keyword_sets, hrefVars>>

\* a loop that walks valid_links from its last element to its first
SyncProcessLink_reversed ==
  /\ pipe["sync"] = "running"
  /\ s_phase = "links"
  /\ s_j <= Len(s_valid_links)
  /\ LET url == urls[s_i]
         link == s_valid_links[Len(s_valid_links) + 1 - s_j]
         status_code == check_http_status(link_resp[link])
         status == LinkStatus(status_code)
     IN IF status_code.outcome = "raise"
        THEN /\ pipe' = [pipe EXCEPT !["sync"] = "raised"]
             /\ error' = [error EXCEPT !["sync"] = "check_http_status"]
             /\ UNCHANGED <<valid_links_info, s_total, s_j>>
        ELSE /\ valid_links_info' = [valid_links_info EXCEPT !["sync"] =
                   Append(@, LinkRecord(url, link, status))]
             /\ IF status = "Valid"
                THEN \E response \in BodyOutcomes(link) :
                       IF response.kind = "response"
                       THEN LET page_content == lower(PageText(link))
                                keyword_set_counts ==
                                  check_keywords_in_page(page_content, keyword_sets)
                            IN /\ s_total' = CounterUpdate(s_total, keyword_set_counts)
                               /\ s_j' = s_j + 1
                               /\ UNCHANGED <<pipe, error>>
                       ELSE /\ pipe' = [pipe EXCEPT !["sync"] = "raised"]
                            /\ error' = [error EXCEPT !["sync"] = "body_request"]
                            /\ UNCHANGED <<s_total, s_j>>
                ELSE /\ s_j' = s_j + 1
                     /\ UNCHANGED <<s_total, pipe, error>>
  /\ UNCHANGED <<s_i, s_phase, s_valid_links, keyword_set_counts_per_link, discovered,
                 mainVars, netVars, asyncVars, kwVars, keyword_sets, hrefVars>>

\* one pass of  for link in valid_links: status check, append, and for a
\* Valid link the body request (outside any guard) and the scan
SyncProcessLink ==
  /\ pipe["sync"] = "running"
  /\ s_phase = "links"
  /\ s_j <= Len(s_valid_links)
  /\ LET url == urls[s_i]
         link == s_valid_links[s_j]
         status_code == check_http_status(link_resp[link])
         status == LinkStatus(status_code)
     IN IF status_code.outcome = "raise"
        THEN /\ pipe' = [pipe EXCEPT !["sync"] = "raised"]
             /\ error' = [error EXCEPT !["sync"] = "check_http_status"]
             /\ UNCHANGED <<valid_links_info, s_total, s_j>>
        ELSE /\ valid_links_info' = [valid_links_info EXCEPT !["sync"] =
                   Append(@, LinkRecord(url, link, status))]
             /\ IF status = "Valid"
                THEN \E response \in BodyOutcomes(link) :
                       IF response.kind = "response"
                       THEN LET page_content == lower(PageText(link))
                                keyword_set_counts ==
                                  check_keywords_in_page(page_content, keyword_sets)
                            IN /\ s_total' = CounterUpdate(s_total, keyword_set_counts)
                               /\ s_j' = s_j + 1
                               /\ UNCHANGED <<pipe, error>>
                       ELSE /\ pipe' = [pipe EXCEPT !["sync"] = "raised"]
                            /\ error' = [error EXCEPT !["sync"] = "body_request"]
                            /\ UNCHANGED <<s_total, s_j>>
                ELSE /\ s_j' = s_j + 1
                     /\ UNCHANGED <<s_total, pipe, error>>
  /\ UNCHANGED <<s_i, s_phase, s_valid_links, keyword_set_counts_per_link, discovered,
                 mainVars, netVars, asyncVars, kwVars, keyword_sets, hrefVars>>

\* keyword_set_counts_per_link[url] = total_keyword_set_count, next url
SyncStoreCounts ==
  /\ pipe["sync"] = "running"
  /\ s_phase = "links"
  /\ s_j > Len(s_valid_links)
  /\ keyword_set_counts_per_link' = [keyword_set_counts_per_link EXCEPT !["sync"] =
        DictSet(@, urls[s_i], s_total)]
  /\ s_i' = s_i + 1
  /\ s_phase' = "get_hrefs"
  /\ UNCHANGED <<s_j, s_valid_links, s_total, pipe, error, valid_links_info, discovered,
                 mainVars, netVars, asyncVars, kwVars, keyword_sets, hrefVars>>

\* return valid_links_info, keyword_set_counts_per_link
SyncReturn ==
  /\ pipe["sync"] = "running"
  /\ s_phase = "get_hrefs"
  /\ s_i > Len(urls)
  /\ pipe' = [pipe EXCEPT !["sync"] = "returned"]
  /\ UNCHANGED <<error, valid_links_info, keyword_set_counts_per_link, discovered,
                 mainVars, netVars, syncVars, asyncVars, kwVars, keyword_sets, hrefVars>>

SyncPipeline == SyncGetHrefs \/ SyncProcessLink \/ SyncStoreCounts \/ SyncReturn

\* ------------- demo_script_with_async.py process_links_and_keywords
\* The event loop runs one task at a time from one await to the next; each
\* action below is such a run. A task that raised holds the place the
\* exception came from.
ExceptionOrigins == {"check_http_status", "body_request"}

\* process_url up to its gather: get_hrefs, then one process_link task per link
AsyncGetHrefs(u) ==
  /\ pipe["async"] = "running"
  /\ url_pc[u] = "get_hrefs"
  /\ LET valid_links == get_hrefs_async(seed_page[u])
     IN /\ url_links' = [url_links EXCEPT ![u] = valid_links]
        /\ link_pc' = [link_pc EXCEPT ![u] = [k \in 1..Len(valid_links) |-> "status"]]
        /\ discovered' = [discovered EXCEPT !["async"] =
              @ \o [k \in 1..Len(valid_links) |-> <<u, valid_links[k]>>]]
  /\ url_pc' = [url_pc EXCEPT ![u] = "gather"]
  /\ UNCHANGED <<url_total, pipe, error, valid_links_info, keyword_set_counts_per_link,
                 mainVars, netVars, syncVars, kwVars, keyword_sets, hrefVars>>

\* process_link from the end of the status request to the next await
AsyncLinkStatus(u, k) ==
  /\ pipe["async"] = "running"
  /\ k \in DOMAIN link_pc[u]
  /\ link_pc[u][k] = "status"
  /\ LET link == url_links[u][k]
         status_code == check_http_status_async(link_resp[link])
         status == LinkStatus(status_code)
     IN IF status_code.outcome = "raise"
        THEN /\ link_pc' = [link_pc EXCEPT ![u][k] = "check_http_status"]
             /\ UNCHANGED valid_links_info
        ELSE /\ valid_links_info' = [valid_links_info EXCEPT !["async"] =
                   Append(@, LinkRecord(u, link, status))]
             /\ link_pc' = [link_pc EXCEPT ![u][k] =
                   IF status = "Valid" THEN "body" ELSE "done"]
  /\ UNCHANGED <<url_pc, url_links, url_total, pipe, error, keyword_set_counts_per_link,
                 discovered, mainVars, netVars, syncVars, kwVars, keyword_sets, hrefVars>>

\* process_link from the end of the body request (outside any guard) to its end
AsyncLinkBody(u, k) ==
  /\ pipe["async"] = "running"
  /\ k \in DOMAIN link_pc[u]
  /\ link_pc[u][k] = "body"
  /\ LET link == url_links[u][k]
     IN \E response \in BodyOutcomes(link) :
          IF response.kind = "response"
          THEN LET page_content == PageText(link)
                   keyword_set_counts ==
                     check_keywords_in_page_async(page_content, keyword_sets)
               IN /\ url_total' = [url_total EXCEPT ![u] =
                        CounterUpdate(@, keyword_set_counts)]
                  /\ link_pc' = [link_pc EXCEPT ![u][k] = "done"]
          ELSE /\ link_pc' = [link_pc EXCEPT ![u][k] = "body_request"]
               /\ UNCHANGED url_total
  /\ UNCHANGED <<url_pc, url_links, pipe, error, valid_links_info,
                 keyword_set_counts_per_link, discovered,
                 mainVars, netVars, syncVars, kwVars, keyword_sets, hrefVars>>

\* a process_url that stores its tally without waiting for its link tasks
AsyncStoreCounts_nojoin(u) ==
  /\ pipe["async"] = "running"
  /\ url_pc[u] = "gather"
  /\ \A k \in DOMAIN link_pc[u] : link_pc[u][k] \notin ExceptionOrigins
  /\ keyword_set_counts_per_link' = [keyword_set_counts_per_link EXCEPT !["async"] =
        DictSet(@, u, url_total[u])]
  /\ url_pc' = [url_pc EXCEPT ![u] = "done"]
  /\ UNCHANGED <<url_links, url_total, link_pc, pipe, error, valid_links_info, discovered,
                 mainVars, netVars, syncVars, kwVars, keyword_sets, hrefVars>>

\* process_url after its gather: every link task has finished
AsyncStoreCounts(u) ==
  /\ pipe["async"] = "running"
  /\ url_pc[u] = "gather"
  /\ \A k \in DOMAIN link_pc[u] : link_pc[u][k] = "done"
  /\ keyword_set_counts_per_link' = [keyword_set_counts_per_link EXCEPT !["async"] =
        DictSet(@, u, url_total[u])]
  /\ url_pc' = [url_pc EXCEPT ![u] = "done"]
  /\ UNCHANGED <<url_links, url_total, link_pc, pipe, error, valid_links_info, discovered,
                 mainVars, netVars, syncVars, kwVars, keyword_sets, hrefVars>>

\* the gather of process_url passes on the exception of a link task; the
\* other link tasks of the seed are not cancelled and keep running
AsyncUrlRaises(u) ==
  /\ pipe["async"] = "running"
  /\ url_pc[u] = "gather"
  /\ \E k \in DOMAIN link_pc[u] :
       /\ link_pc[u][k] \in ExceptionOrigins
       /\ url_pc' = [url_pc EXCEPT ![u] = link_pc[u][k]]
  /\ UNCHANGED <<url_links, url_total, link_pc, pipeVars,
                 mainVars, netVars, syncVars, kwVars, keyword_sets, hrefVars>>

\* the gather of process_links_and_keywords returns: every process_url is done
AsyncReturn ==
  /\ pipe["async"] = "running"
  /\ \A u \in Seeds : url_pc[u] = "done"
  /\ pipe' = [pipe EXCEPT !["async"] = "returned"]
  /\ UNCHANGED <<error, valid_links_info, keyword_set_counts_per_link, discovered,
                 mainVars, netVars, syncVars, asyncVars, kwVars, keyword_sets, hrefVars>>

Cancelled(p) == IF p \in {"get_hrefs", "gather", "status", "body"} THEN "cancelled" ELSE p

\* the gather of process_links_and_keywords passes on the exception of a
\* process_url; asyncio.run cancels the tasks that are left
AsyncRaise ==
  /\ pipe["async"] = "running"
  /\ \E u \in Seeds :
       /\ url_pc[u] \in ExceptionOrigins
       /\ error' = [error EXCEPT !["async"] = url_pc[u]]
  /\ pipe' = [pipe EXCEPT !["async"] = "raised"]
  /\ url_pc' = [u \in Seeds |-> Cancelled(url_pc[u])]
  /\ link_pc' = [u \in Seeds |-> [k \in DOMAIN link_pc[u] |-> Cancelled(link_pc[u][k])]]
  /\ UNCHANGED <<url_links, url_total, valid_links_info, keyword_set_counts_per_link,
                 discovered, mainVars, netVars, syncVars, kwVars, keyword_sets, hrefVars>>

AsyncPipeline ==
  \/ \E u \in Seeds : AsyncGetHrefs(u)
  \/ \E u \in Seeds, k \in 1..MaxLinks : AsyncLinkStatus(u, k)
  \/ \E u \in Seeds, k \in 1..MaxLinks : AsyncLinkBody(u, k)
  \/ \E u \in Seeds : AsyncStoreCounts(u)
  \/ \E u \in Seeds : AsyncUrlRaises(u)
  \/ AsyncReturn
  \/ AsyncRaise

\* ---------------------------------------------------------- specifications
\* one run of one of the two scripts, on a network where a second GET of a
\* url may fail although the first one succeeded
Init == \E script \in Variants : InitRun({script}, "parse_args", FALSE)

Next ==
  \/ \E v \in Variants : Main(v)
  \/ SyncPipeline
  \/ AsyncPipeline

Spec == Init /\ [][Next]_vars

\* process_links_and_keywords of the sequential script, then of the asyncio
\* script, called on the same inputs with the same mocked responses
InitBoth == InitRun(Variants, "pipeline", TRUE)

NextBoth ==
  \/ CallPipeline("sync")
  \/ SyncPipeline
  \/ /\ pipe["sync"] \in {"returned", "raised"}
     /\ (CallPipeline("async") \/ AsyncPipeline)

SpecBoth == InitBoth /\ [][NextBoth]_vars

\* ------------------------------------------------- claims on get_hrefs
Min(a, b) == IF a < b THEN a ELSE b

\* the positions of the page whose anchor has an href starting with "http"
HttpPositions == {i \in 1..Len(page) : page[i].has_href /\ IsHttp(page[i].href)}

\* C4: whatever the number of anchor tags of the page, get_hrefs of either
\* script returns at most 10 links.
C4_AtMostTenLinks ==
  \A v \in Variants : Len(href_result[v]) <= MaxLinks

C4_Witness ==
  /\ hpc = "fetched"
  /\ Cardinality(HttpPositions) > MaxLinks
  /\ \A v \in Variants : Len(href_result[v]) = MaxLinks

\* C10: get_hrefs returns, in document order, exactly the first 10 (or all,
\* if fewer) of the href values that start with "http", the filter coming
\* before the truncation; it returns the empty sequence for a page without
\* anchors and when fetching or parsing fails.
C10_FirstTenHttpHrefs ==
  \A v \in Variants :
    LET r == href_result[v] IN
    /\ hpc = "fetched" =>
         /\ Len(r) = Min(Cardinality(HttpPositions), MaxLinks)
         /\ \A k \in 1..Len(r) :
              \E i \in HttpPositions :
                /\ Cardinality({j \in HttpPositions : j <= i}) = k
                /\ r[k] = page[i].href
    /\ (hpc = "fetched" /\ page = <<>>) => r = <<>>
    /\ hpc = "failed" => r = <<>>

C10_Witness ==
  /\ hpc = "fetched"
  /\ Cardinality(HttpPositions) >= MaxLinks
  /\ \E i \in 1..MaxLinks : i \notin HttpPositions
  /\ \A v \in Variants : Len(href_result[v]) = MaxLinks

\* ------------------------------------ claims on check_keywords_in_page
\* str.upper on one character and on a string
UpperChar(c) ==
  CASE c = "a" -> "A"
    [] c = "b" -> "B"
    [] OTHER -> c
upper(s) == [i \in 1..Len(s) |-> UpperChar(s[i])]

\* two characters that are the same letter in either case, or equal
SameLetter(c, d) ==
  \/ c = d
  \/ {c, d} = {"a", "A"}
  \/ {c, d} = {"b", "B"}

\* the strings that differ from s in the case of letters only
CaseVariants(s) ==
  {t \in StringsOfLen(Len(s)) : \A i \in 1..Len(s) : SameLetter(s[i], t[i])}

\* kw occurs in text, letter case ignored
OccursIgnoringCase(kw, text) ==
  \E i \in 0..(Len(text) - Len(kw)) :
    \A j \in 1..Len(kw) : SameLetter(kw[j], text[i + j])

\* the number of member keywords of group g that occur in text
MembersPresent(g, text) ==
  Cardinality({kw \in g : OccursIgnoringCase(kw, text)})

\* keyword_sets with every keyword rewritten by upper or lower
Recased(toUpper) ==
  [i \in 1..Len(keyword_sets) |->
     {IF toUpper THEN upper(kw) ELSE lower(kw) : kw \in keyword_sets[i]}]

\* C6: in both scripts a keyword counts as present exactly when it occurs in
\* the page text with letter case ignored, and the counts do not change when
\* the case of letters of the page text or of the keywords is changed.
C6_CaseInsensitive ==
  \A i \in 1..Len(keyword_sets) :
    LET g == keyword_sets[i] IN
    /\ "sync" \in kpc =>
         /\ (CounterGet(kw_sync, g) > 0) = (MembersPresent(g, content) > 0)
         /\ \A c2 \in CaseVariants(content) :
              CounterGet(check_keywords_in_page(c2, keyword_sets), g)
                = CounterGet(kw_sync, g)
         /\ \A up \in BOOLEAN :
              CounterGet(check_keywords_in_page(content, Recased(up)), Recased(up)[i])
                = CounterGet(kw_sync, g)
    /\ "async" \in kpc =>
         /\ (CounterGet(kw_async, g) > 0) = (MembersPresent(g, content) > 0)
         /\ \A c2 \in CaseVariants(content) :
              CounterGet(check_keywords_in_page_async(c2, keyword_sets), g)
                = CounterGet(kw_async, g)
         /\ \A up \in BOOLEAN :
              CounterGet(check_keywords_in_page_async(content, Recased(up)), Recased(up)[i])
                = CounterGet(kw_async, g)

\* a keyword set is counted by both scripts although no member occurs in
\* the page in the case it is written in
C6_Witness ==
  /\ kpc = Variants
  /\ \E i \in 1..Len(keyword_sets) :
       /\ CounterGet(kw_sync, keyword_sets[i]) > 0
       /\ CounterGet(kw_async, keyword_sets[i]) > 0
       /\ \A kw \in keyword_sets[i] : ~Contains(kw, content)

\* C9: for one page and one keyword set, the sequential scanner counts the
\* member keywords present in the page, the concurrent scanner counts 1 when
\* at least one member is present; neither records a set with no member
\* present.
C9_HitCounts ==
  \A i \in 1..Len(keyword_sets) :
    LET g == keyword_sets[i]
        n == MembersPresent(g, content)
    IN /\ "sync" \in kpc =>
            /\ CounterGet(kw_sync, g) = n
            /\ (g \in DOMAIN kw_sync) = (n > 0)
       /\ "async" \in kpc =>
            /\ CounterGet(kw_async, g) = (IF n > 0 THEN 1 ELSE 0)
            /\ (g \in DOMAIN kw_async) = (n > 0)

C9_Witness ==
  /\ kpc = Variants
  /\ \E i \in 1..Len(keyword_sets) :
       /\ MembersPresent(keyword_sets[i], content) = 2
       /\ CounterGet(kw_sync, keyword_sets[i]) = 2
       /\ CounterGet(kw_async, keyword_sets[i]) = 1

\* ------------------------------------------------- claims on the pipeline
Finished(v) == pipe[v] \in {"returned", "raised"}

RecordSet(v) == {valid_links_info[v][i] : i \in 1..Len(valid_links_info[v])}

\* the number of records of link l under seed u, and of times get_hrefs
\* returned l for u
RecordsOf(v, u, l) ==
  Cardinality({i \in 1..Len(valid_links_info[v]) :
     valid_links_info[v][i].parent = u /\ valid_links_info[v][i].link = l})
DiscoveriesOf(v, u, l) ==
  Cardinality({i \in 1..Len(discovered[v]) : discovered[v][i] = <<u, l>>})

\* the tally a seed has for a keyword set, 0 when the dict has no entry
Tally(v, u, g) ==
  IF u \in DOMAIN keyword_set_counts_per_link[v]
  THEN CounterGet(keyword_set_counts_per_link[v][u], g)
  ELSE 0

\* the GET of link l returns status 200
Answers200(l) == link_resp[l].kind = "response" /\ link_resp[l].status = HTTP_OK

\* C1: on the same seeds, keyword sets and fixed responses, the results the
\* two scripts' process_links_and_keywords return are the same set of records
\* and, for every seed, the same count for every keyword set.
C1_SameResults ==
  (pipe["sync"] = "returned" /\ pipe["async"] = "returned") =>
     /\ RecordSet("sync") = RecordSet("async")
     /\ \A u \in Seeds : \A i \in 1..Len(keyword_sets) :
          Tally("sync", u, keyword_sets[i]) = Tally("async", u, keyword_sets[i])

\* C2: a record is Valid exactly when the status request of its link
\* returned 200, and no failure of a status request leaves check_http_status
\* as an exception.
C2_ValidIff200 ==
  \A v \in Variants :
    /\ \A i \in 1..Len(valid_links_info[v]) :
         (valid_links_info[v][i].status = "Valid")
           = Answers200(valid_links_info[v][i].link)
    /\ \A u \in Seeds : \A l \in Links :
         (Finished(v) /\ DiscoveriesOf(v, u, l) > 0 /\ ~Answers200(l)) =>
            \E i \in 1..Len(valid_links_info[v]) :
               valid_links_info[v][i] = LinkRecord(u, l, "Invalid")

\* C3: when a run's pipeline has ended there is exactly one record for each
\* link get_hrefs returned, and valid_links.csv, once written, has one data
\* row per discovered link.
C3_OneRecordPerLink ==
  \A v \in Variants :
    /\ Finished(v) =>
         \A u \in Seeds : \A l \in Links : RecordsOf(v, u, l) = DiscoveriesOf(v, u, l)
    /\ (pc[v] \in {Stages[i] : i \in 2..Len(Stages)}) =>
         Len(csv_rows[v]) = Len(discovered[v])

\* C7: no failure of a network operation aborts the pipeline:
\* process_links_and_keywords never ends with an exception.
C7_NeverAborts ==
  \A v \in Variants : pipe[v] # "raised"

\* C5 as claimed: the exit code is 103 when a failure occurred in argument
\* parsing, the pipeline or a reporting stage, 0 otherwise, and nothing else.
C5_ExitCodes ==
  \A v \in Variants :
    pc[v] = "exit" =>
      exit_code[v] = (IF error[v] # "none" THEN <<ExitFailure>> ELSE <<0>>)

\* C5, amended: the exit code is 103 when an exception escaped the pipeline
\* or a reporting stage, 2 when argparse rejected the command line, and 0 in
\* every other run; a running process has no exit code.
C5_ExitCodesAmended ==
  \A v \in Variants :
    IF pc[v] = "exit"
    THEN exit_code[v] =
           (CASE error[v] = "argparse" -> <<2>>
              [] error[v] = "none" -> <<0>>
              [] OTHER -> <<ExitFailure>>)
    ELSE exit_code[v] = <<>>

C5_Witness ==
  \E v \in Variants :
    /\ pc[v] = "exit"
    /\ error[v] = "write_html"
    /\ exit_code[v] = <<ExitFailure>>

\* what the scanner of script v returns for the page behind a link
HitsOf(v, link) ==
  IF v = "sync"
  THEN check_keywords_in_page(lower(PageText(link)), keyword_sets)
  ELSE check_keywords_in_page_async(PageText(link), keyword_sets)

\* the sum of the hits for keyword set g over the Valid records of seed u
\* among the first n records
RECURSIVE SumValidHits(_, _, _, _)
SumValidHits(v, u, g, n) ==
  IF n = 0 THEN 0
  ELSE LET r == valid_links_info[v][n]
       IN SumValidHits(v, u, g, n - 1)
            + (IF r.parent = u /\ r.status = "Valid"
               THEN CounterGet(HitsOf(v, r.link), g) ELSE 0)

\* C8: when the pipeline returns normally every seed has a tally, which for
\* every keyword set is the sum of the scanner's hits over that seed's Valid
\* records, and every discovered link has exactly one record; in the asyncio
\* script under every interleaving of the tasks.
C8_TallyIsSumOverValidLinks ==
  \A v \in Variants :
    pipe[v] = "returned" =>
      /\ DOMAIN keyword_set_counts_per_link[v] = Seeds
      /\ \A u \in Seeds : \A i \in 1..Len(keyword_sets) :
           Tally(v, u, keyword_sets[i])
             = SumValidHits(v, u, keyword_sets[i], Len(valid_links_info[v]))
      /\ \A u \in Seeds : \A l \in Links : RecordsOf(v, u, l) = DiscoveriesOf(v, u, l)

\* the asyncio script returned, one seed has two Valid links, both pages hold
\* a keyword of the same set, and the seed's tally for that set is 2
C8_Witness ==
  /\ pipe["async"] = "returned"
  /\ \E u \in Seeds :
       /\ Cardinality({i \in 1..Len(valid_links_info["async"]) :
             /\ valid_links_info["async"][i].parent = u
             /\ valid_links_info["async"][i].status = "Valid"}) = 2
       /\ \E i \in 1..Len(keyword_sets) : Tally("async", u, keyword_sets[i]) = 2

\* ------------------------------------------------------- claims on main
\* the position after stage number i has completed
AfterStage(i) == IF i < Len(Stages) THEN Stages[i + 1] ELSE "exit"

\* the step of script v is the failure of stage (or of the pipeline): ERROR
\* and CRITICAL are logged, the process exits with 103
FailsAt(v, stage) ==
  /\ pc'[v] = "exit"
  /\ exit_code'[v] = <<ExitFailure>>
  /\ Len(log'[v]) = Len(log[v]) + 2
  /\ SubSeq(log'[v], 1, Len(log[v])) = log[v]
  /\ log'[v][Len(log[v]) + 1] = [level |-> "ERROR", stage |-> stage]
  /\ log'[v][Len(log[v]) + 2] = [level |-> "CRITICAL", stage |-> stage]

MainStep(v) ==
  /\ (pc[v] = "pipeline" /\ pc'[v] # "pipeline") =>
        \/ pc'[v] = Stages[1] /\ pipe[v] = "returned" /\ log'[v] = log[v]
        \/ pipe[v] = "raised" /\ FailsAt(v, "pipeline")
  /\ \A i \in 1..Len(Stages) :
        (pc[v] = Stages[i] /\ pc'[v] # Stages[i]) =>
           \/ /\ pc'[v] = AfterStage(i)
              /\ log'[v] = log[v]
              /\ i = Len(Stages) => exit_code'[v] = <<0>>
           \/ FailsAt(v, Stages[i])
  /\ written[v] \subseteq written'[v]
  /\ pc[v] # "save_valid_links" => csv_rows'[v] = csv_rows[v]
  /\ pc[v] = "exit" =>
        /\ pc'[v] = "exit"
        /\ exit_code'[v] = exit_code[v]
        /\ log'[v] = log[v]
        /\ written'[v] = written[v]

\* a stage has written its files only after every earlier stage has written
\* its own, and nothing is written before the pipeline has returned
OutputsInOrder(v) ==
  /\ \A i \in 1..Len(Stages) : \A j \in 1..(i - 1) :
        (OutputsOf(Stages[i]) \cap written[v] # {}) =>
           OutputsOf(Stages[j]) \subseteq written[v]
  /\ written[v] # {} => pipe[v] = "returned"

\* C11: main runs pipeline, valid_links.csv, link-status chart,
\* keyword_stats.csv, keyword chart and HTML export in this order, a stage
\* starting only when the one before has completed without failure; a failing
\* stage logs its error, no later stage runs, critical is logged, the process
\* exits with 103, and the outputs written before remain.
C11_StagesInOrder ==
  /\ [][\A v \in Variants : MainStep(v)]_vars
  /\ [](\A v \in Variants : OutputsInOrder(v))

\* the keyword chart failed after both CSV files were written
C11_Witness ==
  \E v \in Variants :
    /\ pc[v] = "exit"
    /\ exit_code[v] = <<ExitFailure>>
    /\ log[v] = << [level |-> "ERROR", stage |-> "plot_keyword_freq"],
                   [level |-> "CRITICAL", stage |-> "plot_keyword_freq"] >>
    /\ written[v] = {"valid_links.csv", "keyword_stats.csv"}

\* ------------------------------------------- claims on the asyncio joins
\* every process_link task of seed u has run to its end
LinkTasksDone(u) == \A k \in DOMAIN link_pc[u] : link_pc[u][k] = "done"

JoinBarrier ==
  /\ \A u \in DOMAIN keyword_set_counts_per_link["async"] :
        /\ url_pc[u] = "done"
        /\ LinkTasksDone(u)
        /\ Len(link_pc[u]) = Len(url_links[u])
  /\ pipe["async"] = "returned" =>
        /\ DOMAIN keyword_set_counts_per_link["async"] = Seeds
        /\ \A u \in Seeds : url_pc[u] = "done" /\ LinkTasksDone(u)

\* once returned, the results of the asyncio pipeline no longer change
ReturnedIsFinal ==
  pipe["async"] = "returned" =>
    /\ pipe'["async"] = "returned"
    /\ valid_links_info'["async"] = valid_links_info["async"]
    /\ keyword_set_counts_per_link'["async"] = keyword_set_counts_per_link["async"]
    /\ url_total' = url_total
    /\ link_pc' = link_pc

\* C12: in the asyncio script a seed's tally is stored only after all its
\* process_link tasks have finished, and process_links_and_keywords returns
\* only after all process_url tasks have finished: on normal return every
\* seed has an entry, no task is running and the results no longer change.
C12_JoinIsBarrier ==
  /\ []JoinBarrier
  /\ [][ReturnedIsFinal]_vars

\* the asyncio pipeline returned after the link tasks of the two seeds ran
\* interleaved: a record of one seed lies between two records of the other
C12_Witness ==
  /\ pipe["async"] = "returned"
  /\ LET r == valid_links_info["async"]
     IN \E i, j, k \in 1..Len(r) :
          /\ i < j /\ j < k
          /\ r[i].parent = r[k].parent
          /\ r[j].parent # r[i].parent

\* ------------------------------------- claims on the sequential order
\* the (seed, link) pairs of the first n seeds of urls, seed by seed and,
\* within a seed, in the order get_hrefs returns the links
RECURSIVE ExpectedPairs(_)
ExpectedPairs(n) ==
  IF n = 0 THEN <<>>
  ELSE LET links == get_hrefs(seed_page[urls[n]])
       IN ExpectedPairs(n - 1) \o [k \in 1..Len(links) |-> <<urls[n], links[k]>>]

SyncPairs ==
  [i \in 1..Len(valid_links_info["sync"]) |->
     <<valid_links_info["sync"][i].parent, valid_links_info["sync"][i].link>>]

\* C13: the sequential script's records are a prefix of the discovered
\* links listed seed by seed in the order of urls and, within a seed, in the
\* order of get_hrefs (all of them on return); while a seed is processed its
\* running tally already holds the scan of every link recorded so far, so a
\* link is finished before the next one starts.
C13_SequentialOrder ==
  pipe["sync"] # "idle" =>
    /\ Len(SyncPairs) <= Len(ExpectedPairs(Len(urls)))
    /\ SyncPairs = SubSeq(ExpectedPairs(Len(urls)), 1, Len(SyncPairs))
    /\ pipe["sync"] = "returned" => SyncPairs = ExpectedPairs(Len(urls))
    /\ (pipe["sync"] = "running" /\ s_phase = "links") =>
          /\ Len(SyncPairs) = Len(ExpectedPairs(s_i - 1)) + s_j - 1
          /\ \A i \in 1..Len(keyword_sets) :
               CounterGet(s_total, keyword_sets[i])
                 = SumValidHits("sync", urls[s_i], keyword_sets[i], Len(SyncPairs))

\* the sequential pipeline returned with the two links of the first seed,
\* in page order, followed by the link of the second seed
C13_Witness ==
  /\ pipe["sync"] = "returned"
  /\ SyncPairs = << <<urls[1], Link1>>, <<urls[1], Link2>>, <<urls[2], Link2>> >>

====
